---- MODULE Spec2Model ----
(***************************************************************************)
(* Model of TIMIT.__init__ (code/pylearn2/datasets/timit.py): the          *)
(* per-sequence pipeline that densifies the phoneme and word annotations,  *)
(* derives the end-of-unit indicators, segments every array into frames,   *)
(* aggregates the frames and builds the visiting order.                    *)
(*                                                                         *)
(* Python arrays are modelled as TLA+ sequences: the Python index k is the *)
(* TLA+ index k + 1.  The object under construction is the record `self`, *)
(* whose domain is the set of attributes assigned so far.  The data specs  *)
(* (lines 183-190) and the loading of the files are not part of the        *)
(* pipeline and are not modelled beyond the assignment of the attributes.  *)
(***************************************************************************)
EXTENDS Integers, Sequences, FiniteSets, TLC

VARIABLES
    which_set, frame_length, overlap, frames_per_example, \* constructor arguments
    files,                  \* what serial.load returns for the set's files
    self,                   \* the attributes of the object assigned so far
    pc, error,              \* position in __init__, exception raised (or "none")
    i, sequence,            \* loop variables of line 97
    encoded_phonemes_sequence, encoded_words_sequence,
    end_phoneme, end_word,
    segmented_sequence,
    segmented_encoded_phonemes_sequence, segmented_encoded_words_sequence,
    visiting_order, segmented_sequences, segmented_phonemes, segmented_words

args == <<which_set, frame_length, overlap, frames_per_example, files>>
labels == <<encoded_phonemes_sequence, encoded_words_sequence>>
ends == <<end_phoneme, end_word>>
frames == <<segmented_sequence, segmented_encoded_phonemes_sequence,
            segmented_encoded_words_sequence>>
lists == <<visiting_order, segmented_sequences, segmented_phonemes, segmented_words>>
vars == <<args, self, pc, error, i, sequence, labels, ends, frames, lists>>

(***************************************************************************)
(* Bounds of the inputs.                                                   *)
(***************************************************************************)
MaxLen == 3                 \* samples in a sequence
MaxFrameLength == 3         \* largest frame_length tried
MaxFramesPerExample == 2    \* largest frames_per_example tried
MaxSeqs == 2                \* sequences in a set

(***************************************************************************)
(* numpy and Python primitives.                                            *)
(***************************************************************************)
\* The bound of a slice a[start:end] of an array of length n (slice.indices):
\* a negative index counts from the end, and both ends are clipped to 0..n.
PyIndex(x, n) ==
    IF x < 0 THEN (IF x + n < 0 THEN 0 ELSE x + n)
    ELSE (IF x > n THEN n ELSE x)

\* a[start:end]
SliceGet(a, start, end) ==
    SubSeq(a, PyIndex(start, Len(a)) + 1, PyIndex(end, Len(a)))

\* a[start:end] = value
SliceAssign(a, start, end, value) ==
    LET lo == PyIndex(start, Len(a))
        hi == PyIndex(end, Len(a))
    IN  [k \in 1..Len(a) |-> IF lo < k /\ k <= hi THEN value ELSE a[k]]

zeros_like(a) == [k \in 1..Len(a) |-> 0]

(***************************************************************************)
(* Label densification (lines 98-116).                                     *)
(***************************************************************************)
\* EncodeLoop writing the unit itself, not shifted by one.
RECURSIVE EncodeLoopUnshifted(_, _)
EncodeLoopUnshifted(encoded, annotations) ==
    IF annotations = <<>> THEN encoded
    ELSE LET a == Head(annotations)
         IN  EncodeLoopUnshifted(SliceAssign(encoded, a[1], a[2], a[3]),
                                 Tail(annotations))

\* for (start, end, unit) in annotations: encoded[start:end] = unit + 1
RECURSIVE EncodeLoop(_, _)
EncodeLoop(encoded, annotations) ==
    IF annotations = <<>> THEN encoded
    ELSE LET a == Head(annotations)
         IN  EncodeLoop(SliceAssign(encoded, a[1], a[2], a[3] + 1),
                        Tail(annotations))

\* The rows table[rows[0]:rows[1]] of sequence i, written over zeros.
Encode(seq, table, rows) ==
    EncodeLoop(zeros_like(seq), SliceGet(table, rows[1], rows[2]))

(***************************************************************************)
(* Boundary extraction (lines 118-129).                                    *)
(***************************************************************************)
\* The body of the loop of line 122 for one array, from index j on:
\* if encoded[j] != encoded[j+1]: end[j] = 1, for j in range(n - 1).
RECURSIVE MarkEnds(_, _, _, _)
MarkEnds(end, encoded, j, n) ==
    IF j >= n - 1 THEN end
    ELSE MarkEnds(IF encoded[j + 1] # encoded[j + 2]
                  THEN [end EXCEPT ![j + 1] = 1] ELSE end,
                  encoded, j + 1, n)

\* end[-1] = 1 (an IndexError on an empty array, see ExtractBoundaries)
SetLast(end) == [end EXCEPT ![Len(end)] = 1]

(***************************************************************************)
(* segment_axis of research.code.scripts.segmentaxis, as the specification *)
(* describes it: frames of `length` samples at offsets 0, step, 2 step,    *)
(* ... with step = length - overlap, stopping before a frame would run     *)
(* past the end of the array; a length <= 0 or an overlap outside          *)
(* 0..length-1 is an error.                                                *)
(***************************************************************************)
SegmentAxisAccepts(length, ovl) == length > 0 /\ ovl >= 0 /\ ovl < length

RECURSIVE FrameOffsets(_, _, _, _)
FrameOffsets(offset, n, length, step) ==
    IF offset + length > n THEN <<>>
    ELSE <<offset>> \o FrameOffsets(offset + step, n, length, step)

segment_axis(a, length, ovl) ==
    LET offsets == FrameOffsets(0, Len(a), length, length - ovl)
    IN  [k \in 1..Len(offsets) |-> SubSeq(a, offsets[k] + 1, offsets[k] + length)]

(***************************************************************************)
(* Frame aggregation: scipy.stats.mode(a, axis=1)[0].flatten() and         *)
(* a.max(axis=1).                                                          *)
(***************************************************************************)
RECURSIVE SortedSeq(_)
SortedSeq(S) ==
    IF S = {} THEN <<>>
    ELSE LET m == CHOOSE x \in S : \A y \in S : x <= y
         IN  <<m>> \o SortedSeq(S \ {m})

\* numpy.unique(numpy.ravel(a)): the values of the whole array, ascending
Unique(a) == SortedSeq(UNION {{a[k][c] : c \in 1..Len(a[k])} : k \in 1..Len(a)})

CountOf(row, score) == Cardinality({c \in 1..Len(row) : row[c] = score})

\* ModeLoop keeping the last of the most frequent scores.
RECURSIVE ModeLoopLastWins(_, _, _, _)
ModeLoopLastWins(row, scores, mostfrequent, oldcounts) ==
    IF scores = <<>> THEN mostfrequent
    ELSE LET counts == CountOf(row, Head(scores))
         IN  IF counts >= oldcounts
             THEN ModeLoopLastWins(row, Tail(scores), Head(scores), counts)
             ELSE ModeLoopLastWins(row, Tail(scores), mostfrequent, oldcounts)

\* mode's loop over the scores for one row: a score replaces the most
\* frequent one only when its count is strictly greater.
RECURSIVE ModeLoop(_, _, _, _)
ModeLoop(row, scores, mostfrequent, oldcounts) ==
    IF scores = <<>> THEN mostfrequent
    ELSE LET counts == CountOf(row, Head(scores))
         IN  IF counts > oldcounts
             THEN ModeLoop(row, Tail(scores), Head(scores), counts)
             ELSE ModeLoop(row, Tail(scores), mostfrequent, oldcounts)

mode(a) == [k \in 1..Len(a) |-> ModeLoop(a[k], Unique(a), 0, 0)]

RECURSIVE RowMax(_)
RowMax(row) ==
    IF Len(row) = 1 THEN row[1]
    ELSE LET rest == RowMax(Tail(row))
         IN  IF row[1] > rest THEN row[1] ELSE rest

max(a) == [k \in 1..Len(a) |-> RowMax(a[k])]

\* AppendReferences with the stop included.
RECURSIVE AppendReferencesInclusive(_, _, _, _)
AppendReferencesInclusive(order, seq_index, j, stop) ==
    IF j > stop THEN order
    ELSE AppendReferencesInclusive(Append(order, <<seq_index, j>>),
                                   seq_index, j + 1, stop)

\* for j in xrange(...): visiting_order.append((i, j))
RECURSIVE AppendReferences(_, _, _, _)
AppendReferences(order, seq_index, j, stop) ==
    IF j >= stop THEN order
    ELSE AppendReferences(Append(order, <<seq_index, j>>), seq_index, j + 1, stop)

(***************************************************************************)
(* The inputs: the constructor's arguments and the content of the files.   *)
(***************************************************************************)
WhichSets == {"train", "valid", "test", "dev"}
Units == {0, 1}             \* phoneme and word ids of the annotations
AnnotationCounts == 0..2    \* annotations of one sequence

SeqsOver(S, counts) == UNION {[1..m -> S] : m \in counts}

\* The raw samples of sequence seq_index: all different, so that a frame
\* shows the offset it was cut at.
Wave(seq_index, n) == [k \in 1..n |-> 10 * seq_index + k]

\* Annotations (start, end, unit) of a sequence of n samples; end = n + 1
\* lies past the last sample.
Intervals(n) ==
    {t \in (0..n) \X (1..(n + 1)) \X Units : t[1] < t[2]}

Input(ws, fl, ovl, fpe, raw, phn, seq_to_phn, wrd, seq_to_wrd) ==
    [which_set |-> ws, frame_length |-> fl, overlap |-> ovl,
     frames_per_example |-> fpe, raw_wav |-> raw,
     phonemes |-> phn, sequences_to_phonemes |-> seq_to_phn,
     words |-> wrd, sequences_to_words |-> seq_to_wrd]

\* One sequence with every list of annotations on one side and a few on
\* the other, under every accepted frame_length and overlap.
FewAnnotations(n) == {<<>>, <<<<0, n, 0>>>>, <<<<1, n + 1, 1>>>>}

\* The tables of several sequences: sequence k (from 0) of n samples has the
\* phonemes (0, h, 0), (h, n, 1) and the word (0, n, k), its rows following
\* those of the sequences before it.
RECURSIVE TablesOf(_, _, _)
TablesOf(lengths, k, acc) ==
    IF k > Len(lengths) THEN acc
    ELSE LET n == lengths[k]
             h == (n + 1) \div 2
         IN  TablesOf(lengths, k + 1,
               [raw_wav |-> Append(acc.raw_wav, Wave(k - 1, n)),
                phonemes |-> acc.phonemes \o <<<<0, h, 0>>, <<h, n, 1>>>>,
                sequences_to_phonemes |->
                    Append(acc.sequences_to_phonemes,
                           <<Len(acc.phonemes), Len(acc.phonemes) + 2>>),
                words |-> Append(acc.words, <<0, n, k - 1>>),
                sequences_to_words |->
                    Append(acc.sequences_to_words,
                           <<Len(acc.words), Len(acc.words) + 1>>)])

EmptyTables ==
    [raw_wav |-> <<>>, phonemes |-> <<>>, sequences_to_phonemes |-> <<>>,
     words |-> <<>>, sequences_to_words |-> <<>>]

InputOf(ws, fl, ovl, fpe, lengths) ==
    LET t == TablesOf(lengths, 1, EmptyTables)
    IN  Input(ws, fl, ovl, fpe, t.raw_wav, t.phonemes, t.sequences_to_phonemes,
              t.words, t.sequences_to_words)

\* The end-to-end scenario: 100 samples, the phoneme (10, 50, 3),
\* frame_length 20, overlap 10, one frame per example.
ScenarioInput ==
    Input("valid", 20, 10, 1, <<Wave(0, 100)>>,
          <<<<10, 50, 3>>>>, <<<<0, 1>>>>, <<>>, <<<<0, 0>>>>)

(***************************************************************************)
(* The constructor.                                                        *)
(***************************************************************************)
Start(input) ==
    /\ which_set = input.which_set
    /\ frame_length = input.frame_length
    /\ overlap = input.overlap
    /\ frames_per_example = input.frames_per_example
    /\ files = [raw_wav |-> input.raw_wav,
                phonemes |-> input.phonemes,
                sequences_to_phonemes |-> input.sequences_to_phonemes,
                words |-> input.words,
                sequences_to_words |-> input.sequences_to_words]
    /\ self = [class |-> "TIMIT"]
    /\ pc = "which_set"
    /\ error = "none"
    /\ i = -1
    /\ sequence = <<>>
    /\ encoded_phonemes_sequence = <<>>
    /\ encoded_words_sequence = <<>>
    /\ end_phoneme = <<>>
    /\ end_word = <<>>
    /\ segmented_sequence = <<>>
    /\ segmented_encoded_phonemes_sequence = <<>>
    /\ segmented_encoded_words_sequence = <<>>
    /\ visiting_order = <<>>
    /\ segmented_sequences = <<>>
    /\ segmented_phonemes = <<>>
    /\ segmented_words = <<>>

\* One sequence with every list of phoneme annotations and a few lists of
\* word annotations, under every accepted frame_length and overlap.
InitPhonemes ==
    \E n \in 0..MaxLen, fl \in 1..MaxFrameLength :
      \E ovl \in 0..(fl - 1), wrd \in FewAnnotations(n) :
        \E phn \in SeqsOver(Intervals(n), AnnotationCounts) :
          Start(Input("train", fl, ovl, 1, <<Wave(0, n)>>,
                      phn, <<<<0, Len(phn)>>>>, wrd, <<<<0, Len(wrd)>>>>))

\* The same with the two tables exchanged.
InitWords ==
    \E n \in 0..MaxLen, fl \in 1..MaxFrameLength :
      \E ovl \in 0..(fl - 1), phn \in FewAnnotations(n) :
        \E wrd \in SeqsOver(Intervals(n), AnnotationCounts) :
          Start(Input("test", fl, ovl, 1, <<Wave(0, n)>>,
                      phn, <<<<0, Len(phn)>>>>, wrd, <<<<0, Len(wrd)>>>>))

\* Every which_set, frame_length and overlap, accepted or not, with no
\* sequence or one.
InitConfiguration ==
    \E ws \in WhichSets, fl \in 0..MaxFrameLength, ovl \in (-1)..MaxFrameLength :
      \E fpe \in 1..MaxFramesPerExample, lengths \in SeqsOver(0..MaxLen, 0..1) :
        Start(InputOf(ws, fl, ovl, fpe, lengths))

\* Several sequences of every length under every accepted configuration.
InitIndex ==
    \E fl \in 1..MaxFrameLength, fpe \in 1..MaxFramesPerExample :
      \E ovl \in 0..(fl - 1), lengths \in SeqsOver(0..MaxLen, 2..MaxSeqs) :
        Start(InputOf("valid", fl, ovl, fpe, lengths))

InitScenario == Start(ScenarioInput)

Init == InitScenario \/ InitPhonemes \/ InitWords \/ InitConfiguration \/ InitIndex

\* lines 47-49
RaiseWhichSet ==
    /\ pc = "which_set"
    /\ which_set \notin {"train", "valid", "test"}
    /\ pc' = "raised"
    /\ error' = "ValueError"
    /\ UNCHANGED <<args, self, i, sequence, labels, ends, frames, lists>>

\* lines 51-53
StoreConfiguration ==
    /\ pc = "which_set"
    /\ which_set \in {"train", "valid", "test"}
    /\ self' = self @@ [frame_length |-> frame_length, overlap |-> overlap,
                        frames_per_example |-> frames_per_example]
    /\ pc' = "load"
    /\ UNCHANGED <<args, error, i, sequence, labels, ends, frames, lists>>

\* lines 78-96: the files of the set, then the empty lists
LoadData ==
    /\ pc = "load"
    /\ self' = self @@ [raw_wav |-> files.raw_wav,
                        phonemes |-> files.phonemes,
                        sequences_to_phonemes |-> files.sequences_to_phonemes,
                        words |-> files.words,
                        sequences_to_words |-> files.sequences_to_words]
    /\ visiting_order' = <<>>
    /\ segmented_sequences' = <<>>
    /\ segmented_phonemes' = <<>>
    /\ segmented_words' = <<>>
    /\ pc' = "for"
    /\ UNCHANGED <<args, error, i, sequence, labels, ends, frames>>

\* line 97: the next sequence
ForSequence ==
    /\ pc = "for"
    /\ i + 1 < Len(self.raw_wav)
    /\ i' = i + 1
    /\ sequence' = self.raw_wav[i + 2]
    /\ pc' = "phonemes"
    /\ UNCHANGED <<args, self, error, labels, ends, frames, lists>>

\* lines 98-106
EncodePhonemes ==
    /\ pc = "phonemes"
    /\ encoded_phonemes_sequence' =
         Encode(sequence, self.phonemes, self.sequences_to_phonemes[i + 1])
    /\ pc' = "words"
    /\ UNCHANGED <<args, self, error, i, sequence, encoded_words_sequence,
                   ends, frames, lists>>

\* lines 108-116
EncodeWords ==
    /\ pc = "words"
    /\ encoded_words_sequence' =
         Encode(sequence, self.words, self.sequences_to_words[i + 1])
    /\ pc' = "ends"
    /\ UNCHANGED <<args, self, error, i, sequence, encoded_phonemes_sequence,
                   ends, frames, lists>>

\* ExtractBoundaries reading the phonemes for both arrays.
ExtractBoundariesOfPhonemes ==
    /\ pc = "ends"
    /\ Len(encoded_phonemes_sequence) > 0
    /\ end_phoneme' = SetLast(MarkEnds(zeros_like(encoded_phonemes_sequence),
                                       encoded_phonemes_sequence, 0,
                                       Len(encoded_phonemes_sequence)))
    /\ end_word' = SetLast(MarkEnds(zeros_like(encoded_words_sequence),
                                    encoded_phonemes_sequence, 0,
                                    Len(encoded_phonemes_sequence)))
    /\ pc' = "segment"
    /\ UNCHANGED <<args, self, error, i, sequence, labels, frames, lists>>

\* lines 118-129
ExtractBoundaries ==
    /\ pc = "ends"
    /\ Len(encoded_phonemes_sequence) > 0
    /\ end_phoneme' = SetLast(MarkEnds(zeros_like(encoded_phonemes_sequence),
                                       encoded_phonemes_sequence, 0,
                                       Len(encoded_phonemes_sequence)))
    /\ end_word' = SetLast(MarkEnds(zeros_like(encoded_words_sequence),
                                    encoded_words_sequence, 0,
                                    Len(encoded_phonemes_sequence)))
    /\ pc' = "segment"
    /\ UNCHANGED <<args, self, error, i, sequence, labels, frames, lists>>

\* lines 118-128 on a sequence of no sample: end_phoneme[-1] is an IndexError
RaiseEmptySequence ==
    /\ pc = "ends"
    /\ Len(encoded_phonemes_sequence) = 0
    /\ end_phoneme' = zeros_like(encoded_phonemes_sequence)
    /\ end_word' = zeros_like(encoded_words_sequence)
    /\ pc' = "raised"
    /\ error' = "IndexError"
    /\ UNCHANGED <<args, self, i, sequence, labels, frames, lists>>

\* lines 136-138
SegmentSequence ==
    /\ pc = "segment"
    /\ SegmentAxisAccepts(self.frame_length, self.overlap)
    /\ segmented_sequence' = segment_axis(sequence, self.frame_length, self.overlap)
    /\ pc' = "segment_phonemes"
    /\ UNCHANGED <<args, self, error, i, sequence, labels, ends,
                   segmented_encoded_phonemes_sequence,
                   segmented_encoded_words_sequence, lists>>

\* line 137: segment_axis refuses the frame_length or the overlap
RaiseSegmentAxis ==
    /\ pc = "segment"
    /\ ~SegmentAxisAccepts(self.frame_length, self.overlap)
    /\ pc' = "raised"
    /\ error' = "ValueError"
    /\ UNCHANGED <<args, self, i, sequence, labels, ends, frames, lists>>

\* lines 141-145
SegmentEncodedPhonemes ==
    /\ pc = "segment_phonemes"
    /\ segmented_encoded_phonemes_sequence' =
         segment_axis(encoded_phonemes_sequence, self.frame_length, self.overlap)
    /\ pc' = "mode_phonemes"
    /\ UNCHANGED <<args, self, error, i, sequence, labels, ends,
                   segmented_sequence, segmented_encoded_words_sequence, lists>>

\* lines 146-152 (the values are integers already: asarray changes none)
ModeEncodedPhonemes ==
    /\ pc = "mode_phonemes"
    /\ segmented_encoded_phonemes_sequence' =
         mode(segmented_encoded_phonemes_sequence)
    /\ pc' = "segment_words"
    /\ UNCHANGED <<args, self, error, i, sequence, labels, ends,
                   segmented_sequence, segmented_encoded_words_sequence, lists>>

\* lines 155-157
SegmentEncodedWords ==
    /\ pc = "segment_words"
    /\ segmented_encoded_words_sequence' =
         segment_axis(encoded_words_sequence, self.frame_length, self.overlap)
    /\ pc' = "mode_words"
    /\ UNCHANGED <<args, self, error, i, sequence, labels, ends,
                   segmented_sequence, segmented_encoded_phonemes_sequence, lists>>

\* lines 158-165
ModeEncodedWords ==
    /\ pc = "mode_words"
    /\ segmented_encoded_words_sequence' =
         mode(segmented_encoded_words_sequence)
    /\ pc' = "segment_end_phoneme"
    /\ UNCHANGED <<args, self, error, i, sequence, labels, ends,
                   segmented_sequence, segmented_encoded_phonemes_sequence, lists>>

\* lines 168-169
SegmentEndPhoneme ==
    /\ pc = "segment_end_phoneme"
    /\ end_phoneme' = segment_axis(end_phoneme, self.frame_length, self.overlap)
    /\ pc' = "max_end_phoneme"
    /\ UNCHANGED <<args, self, error, i, sequence, labels, end_word, frames, lists>>

\* line 170
MaxEndPhoneme ==
    /\ pc = "max_end_phoneme"
    /\ end_phoneme' = max(end_phoneme)
    /\ pc' = "segment_end_word"
    /\ UNCHANGED <<args, self, error, i, sequence, labels, end_word, frames, lists>>

\* SegmentEndWord without the overlap.
SegmentEndWordNoOverlap ==
    /\ pc = "segment_end_word"
    /\ end_word' = segment_axis(end_word, self.frame_length, 0)
    /\ pc' = "max_end_word"
    /\ UNCHANGED <<args, self, error, i, sequence, labels, end_phoneme, frames, lists>>

\* line 171
SegmentEndWord ==
    /\ pc = "segment_end_word"
    /\ end_word' = segment_axis(end_word, self.frame_length, self.overlap)
    /\ pc' = "max_end_word"
    /\ UNCHANGED <<args, self, error, i, sequence, labels, end_phoneme, frames, lists>>

\* line 172
MaxEndWord ==
    /\ pc = "max_end_word"
    /\ end_word' = max(end_word)
    /\ pc' = "store"
    /\ UNCHANGED <<args, self, error, i, sequence, labels, end_phoneme, frames, lists>>

\* StoreAndIndex referencing every frame, the last one included.
StoreAndIndexEveryFrame ==
    /\ pc = "store"
    /\ segmented_sequences' = Append(segmented_sequences, segmented_sequence)
    /\ self' = [self EXCEPT !.raw_wav[i + 1] = segmented_sequence]
    /\ visiting_order' =
         AppendReferences(visiting_order, i, 0, Len(segmented_sequence))
    /\ pc' = "for"
    /\ UNCHANGED <<args, error, i, sequence, labels, ends, frames,
                   segmented_phonemes, segmented_words>>

\* lines 174-179
StoreAndIndex ==
    /\ pc = "store"
    /\ segmented_sequences' = Append(segmented_sequences, segmented_sequence)
    /\ self' = [self EXCEPT !.raw_wav[i + 1] = segmented_sequence]
    /\ visiting_order' =
         AppendReferences(visiting_order, i, 0,
                          Len(segmented_sequence) - self.frames_per_example)
    /\ pc' = "for"
    /\ UNCHANGED <<args, error, i, sequence, labels, ends, frames,
                   segmented_phonemes, segmented_words>>

\* line 97 with no sequence left, then line 181
PublishVisitingOrder ==
    /\ pc = "for"
    /\ i + 1 >= Len(self.raw_wav)
    /\ self' = self @@ [visiting_order |-> visiting_order]
    /\ pc' = "done"
    /\ UNCHANGED <<args, error, i, sequence, labels, ends, frames, lists>>

Next ==
    \/ RaiseWhichSet
    \/ StoreConfiguration
    \/ LoadData
    \/ ForSequence
    \/ EncodePhonemes
    \/ EncodeWords
    \/ ExtractBoundaries
    \/ RaiseEmptySequence
    \/ SegmentSequence
    \/ RaiseSegmentAxis
    \/ SegmentEncodedPhonemes
    \/ ModeEncodedPhonemes
    \/ SegmentEncodedWords
    \/ ModeEncodedWords
    \/ SegmentEndPhoneme
    \/ MaxEndPhoneme
    \/ SegmentEndWord
    \/ MaxEndWord
    \/ StoreAndIndex
    \/ PublishVisitingOrder

Spec == Init /\ [][Next]_vars

(***************************************************************************)
(* Vocabulary of the properties.                                           *)
(***************************************************************************)
At(a, k) == a[k + 1]                    \* the Python element a[k]
NumSequences == Len(files.raw_wav)
LengthOf(k) == Len(files.raw_wav[k + 1])   \* samples of sequence k, as loaded

\* Positions of __init__ inside the loop body, in program order.
BodyOrder ==
    <<"phonemes", "words", "ends", "segment", "segment_phonemes",
      "mode_phonemes", "segment_words", "mode_words", "segment_end_phoneme",
      "max_end_phoneme", "segment_end_word", "max_end_word", "store">>
Position(p) == CHOOSE n \in 1..Len(BodyOrder) : BodyOrder[n] = p
InBody == \E n \in 1..Len(BodyOrder) : BodyOrder[n] = pc
\* the current iteration is past position p and not yet past position q
Between(p, q) == InBody /\ Position(p) < Position(pc) /\ Position(pc) <= Position(q)
After(p) == Between(p, "store")

\* The rows of a table that belong to a sequence, and its annotations.
RowsOf(table, rows) == {r \in 1..Len(table) : rows[1] < r /\ r <= rows[2]}
InBounds(table, rows, n) ==
    \A r \in RowsOf(table, rows) :
        0 <= table[r][1] /\ table[r][1] <= table[r][2] /\ table[r][2] <= n
Covers(t, k) == t[1] <= k /\ k < t[2]

\* The label of sample k after densification: that of the last annotation
\* over k, and 0 under none.
DenseLabel(table, rows, k) ==
    LET over == {r \in RowsOf(table, rows) : Covers(table[r], k)}
    IN  IF over = {} THEN 0
        ELSE table[CHOOSE r \in over : \A q \in over : q <= r][3] + 1

\* The boundary indicator of a label array.
BoundaryOf(label) ==
    [j \in 1..Len(label) |->
        IF j = Len(label) THEN 1 ELSE IF label[j] # label[j + 1] THEN 1 ELSE 0]

\* The frames of an array of n samples under the stored configuration.
Step == self.frame_length - self.overlap
NumFrames(n) ==
    IF n >= self.frame_length THEN (n - self.overlap) \div Step ELSE 0
FrameAt(a, k) == [c \in 1..self.frame_length |-> a[k * Step + c]]
FramesOf(a) == [k \in 1..NumFrames(Len(a)) |-> FrameAt(a, k - 1)]

\* C1: after construction the visiting order holds exactly the references
\* (k, j) with 0 <= j < N_k - frames_per_example, N_k the number of frames of
\* sequence k, in strictly increasing order of (k, j): sequence-major,
\* offsets ascending, no duplicate; a sequence of N_k <= frames_per_example
\* frames adds none and raises nothing.
C1_VisitingOrder ==
    pc = "done" =>
        LET order == self.visiting_order
            N(k) == Len(segmented_sequences[k + 1])
        IN  /\ Len(segmented_sequences) = NumSequences
            /\ error = "none"
            /\ {order[x] : x \in 1..Len(order)} =
                 UNION {{<<k, j>> : j \in {j \in 0..LengthOf(k) :
                                      j < N(k) - self.frames_per_example}} :
                        k \in 0..(NumSequences - 1)}
            /\ \A x \in 1..(Len(order) - 1) :
                   \/ order[x][1] < order[x + 1][1]
                   \/ /\ order[x][1] = order[x + 1][1]
                      /\ order[x][2] < order[x + 1][2]

C1_Witness ==
    /\ pc = "done"
    /\ NumSequences = 2
    /\ Len(segmented_sequences[1]) >= 1
    /\ Len(segmented_sequences[1]) <= self.frames_per_example
    /\ Len(self.visiting_order) >= 2
    /\ self.visiting_order[1][1] = 1

\* The end-to-end scenario has run to the end.
ScenarioDone ==
    /\ pc = "done"
    /\ NumSequences = 1 /\ LengthOf(0) = 100
    /\ self.frame_length = 20 /\ self.overlap = 10
    /\ self.frames_per_example = 1

\* C2 as stated: the sequence of 100 samples under frame_length 20, overlap
\* 10 and one frame per example is cut into 9 frames and adds the 9
\* references (0, 0) to (0, 8).
C2_NineReferences ==
    ScenarioDone =>
        /\ Len(self.raw_wav[1]) = 9
        /\ self.visiting_order = [j \in 1..9 |-> <<0, j - 1>>]

\* C2 amended: the sequence is cut into 9 frames and adds the 8 references
\* (0, 0) to (0, 7), the last frame being only a target.
C2_EightReferences ==
    ScenarioDone =>
        /\ Len(self.raw_wav[1]) = 9
        /\ self.visiting_order = [j \in 1..8 |-> <<0, j - 1>>]

C2_Witness == ScenarioDone /\ Len(self.visiting_order) > 0

\* C3 as stated: the last element of each boundary array is 1, per sample
\* after the extraction and per frame after the aggregation, whenever the
\* array has an element.
C3_TerminalBoundary ==
    /\ Between("ends", "segment_end_phoneme") =>
           end_phoneme[Len(end_phoneme)] = 1
    /\ Between("ends", "segment_end_word") =>
           end_word[Len(end_word)] = 1
    /\ (After("max_end_phoneme") /\ Len(end_phoneme) > 0) =>
           end_phoneme[Len(end_phoneme)] = 1
    /\ (After("max_end_word") /\ Len(end_word) > 0) =>
           end_word[Len(end_word)] = 1

\* An annotation of sequence k that leaves the samples 0 .. L-1.
Misaligned(k) ==
    \/ ~InBounds(files.phonemes, files.sequences_to_phonemes[k + 1], LengthOf(k))
    \/ ~InBounds(files.words, files.sequences_to_words[k + 1], LengthOf(k))

\* C4 as stated: the construction does not get on with a sequence that has a
\* misaligned annotation (its label arrays are never segmented), and the
\* visiting order of a set with such a sequence is never published.
C4_AlignmentError ==
    /\ (After("ends") /\ Misaligned(i)) => FALSE
    /\ pc = "done" => \A k \in 0..(NumSequences - 1) : ~Misaligned(k)

\* The arguments the specification calls a configuration error.
ConfigurationError ==
    \/ which_set \notin {"train", "valid", "test"}
    \/ frame_length <= 0
    \/ overlap >= frame_length
    \/ overlap < 0

\* C5 as stated: under a configuration error no sequence is densified,
\* segmented or overwritten, no reference is appended, and the construction
\* does not complete.
C5_ConfigurationErrors ==
    ConfigurationError =>
        /\ pc # "done"
        /\ ~After("phonemes")
        /\ encoded_phonemes_sequence = <<>>
        /\ visiting_order = <<>>

\* C6: when the annotations of the current sequence lie inside it, each
\* densified array has one label per sample: unit + 1 of the last annotation
\* over the sample, and 0 where there is none.
C6_Densification ==
    /\ (After("phonemes")
        /\ InBounds(files.phonemes, files.sequences_to_phonemes[i + 1], LengthOf(i)))
       => /\ Len(encoded_phonemes_sequence) = LengthOf(i)
          /\ \A k \in 0..(LengthOf(i) - 1) :
                 At(encoded_phonemes_sequence, k) =
                     DenseLabel(files.phonemes, files.sequences_to_phonemes[i + 1], k)
    /\ (After("words")
        /\ InBounds(files.words, files.sequences_to_words[i + 1], LengthOf(i)))
       => /\ Len(encoded_words_sequence) = LengthOf(i)
          /\ \A k \in 0..(LengthOf(i) - 1) :
                 At(encoded_words_sequence, k) =
                     DenseLabel(files.words, files.sequences_to_words[i + 1], k)

\* Two annotations of different units overlap on a sample, the later one
\* gave the label, and another sample is under no annotation.
C6_Witness ==
    /\ pc = "ends"
    /\ InBounds(files.phonemes, files.sequences_to_phonemes[i + 1], LengthOf(i))
    /\ Len(files.phonemes) = 2
    /\ files.phonemes[1][3] > files.phonemes[2][3]
    /\ \E k \in 0..(LengthOf(i) - 1) :
           /\ Covers(files.phonemes[1], k) /\ Covers(files.phonemes[2], k)
           /\ At(encoded_phonemes_sequence, k) = files.phonemes[2][3] + 1
    /\ \E k \in 0..(LengthOf(i) - 1) : At(encoded_phonemes_sequence, k) = 0

\* C7: each boundary array has one element per sample: 1 where the label of
\* its own array changes at the next sample, 0 where it does not, and 1 at
\* the last sample whatever the labels.
C7_Boundaries ==
    /\ Between("ends", "segment_end_phoneme") =>
        /\ Len(end_phoneme) = LengthOf(i)
        /\ At(end_phoneme, LengthOf(i) - 1) = 1
        /\ \A j \in 0..(LengthOf(i) - 2) :
               At(end_phoneme, j) =
                   IF At(encoded_phonemes_sequence, j) # At(encoded_phonemes_sequence, j + 1)
                   THEN 1 ELSE 0
    /\ Between("ends", "segment_end_word") =>
        /\ Len(end_word) = LengthOf(i)
        /\ At(end_word, LengthOf(i) - 1) = 1
        /\ \A j \in 0..(LengthOf(i) - 2) :
               At(end_word, j) =
                   IF At(encoded_words_sequence, j) # At(encoded_words_sequence, j + 1)
                   THEN 1 ELSE 0

\* The two boundary arrays differ, and the last sample is a boundary though
\* the phoneme before it is the same.
C7_Witness ==
    /\ pc = "segment"
    /\ LengthOf(i) >= 3
    /\ \E j \in 0..(LengthOf(i) - 2) : At(end_phoneme, j) = 1 /\ At(end_word, j) = 0
    /\ \E j \in 0..(LengthOf(i) - 2) : At(end_phoneme, j) = 0 /\ At(end_word, j) = 1
    /\ At(encoded_phonemes_sequence, LengthOf(i) - 2) =
           At(encoded_phonemes_sequence, LengthOf(i) - 1)
    /\ At(encoded_phonemes_sequence, LengthOf(i) - 1) # 0

ValuesOf(row) == {row[c] : c \in 1..Len(row)}
Occurrences(row, v) == Cardinality({c \in 1..Len(row) : row[c] = v})
\* v is the most frequent value of the frame, the smallest of them on a tie
IsMajority(v, row) ==
    /\ v \in ValuesOf(row)
    /\ \A w \in ValuesOf(row) :
           \/ Occurrences(row, w) < Occurrences(row, v)
           \/ Occurrences(row, w) = Occurrences(row, v) /\ v <= w
IsAny(b, row) == b = IF 1 \in ValuesOf(row) THEN 1 ELSE 0

\* C9: the aggregated phoneme and word label of every frame is the most
\* frequent label among the samples of the frame, the smallest on a tie, and
\* the aggregated boundary of a frame is 1 iff a sample of the frame is a
\* boundary.
C9_Aggregation ==
    /\ After("mode_phonemes") =>
         \A k \in 1..NumFrames(LengthOf(i)) :
             IsMajority(segmented_encoded_phonemes_sequence[k],
                        FrameAt(encoded_phonemes_sequence, k - 1))
    /\ After("mode_words") =>
         \A k \in 1..NumFrames(LengthOf(i)) :
             IsMajority(segmented_encoded_words_sequence[k],
                        FrameAt(encoded_words_sequence, k - 1))
    /\ After("max_end_phoneme") =>
         \A k \in 1..NumFrames(LengthOf(i)) :
             IsAny(end_phoneme[k],
                   FrameAt(BoundaryOf(encoded_phonemes_sequence), k - 1))
    /\ After("max_end_word") =>
         \A k \in 1..NumFrames(LengthOf(i)) :
             IsAny(end_word[k], FrameAt(BoundaryOf(encoded_words_sequence), k - 1))

\* A frame that starts with label 2 and holds 1 as often got the label 1,
\* one frame holds a phoneme boundary that is not the last sample, and one
\* frame holds no word boundary.
C9_Witness ==
    /\ pc = "store"
    /\ \E k \in 1..NumFrames(LengthOf(i)) :
         LET row == FrameAt(encoded_phonemes_sequence, k - 1)
         IN  /\ row[1] = 2
             /\ Occurrences(row, 1) = Occurrences(row, 2)
             /\ segmented_encoded_phonemes_sequence[k] = 1
    /\ \E k \in 1..NumFrames(LengthOf(i)) :
         /\ end_phoneme[k] = 1
         /\ (k - 1) * Step + self.frame_length < LengthOf(i)
    /\ \E k \in 1..NumFrames(LengthOf(i)) : end_word[k] = 0

\* C10 as stated: after the construction raw_wav holds the frames of every
\* sequence in place of its samples, and the aggregated phoneme and word
\* labels of every sequence are kept with the visiting order.
C10_ExposedOutputs ==
    pc = "done" =>
        /\ "visiting_order" \in DOMAIN self
        /\ \A k \in 0..(NumSequences - 1) :
               At(self.raw_wav, k) = At(segmented_sequences, k)
        /\ Len(segmented_phonemes) = NumSequences
        /\ Len(segmented_words) = NumSequences

====
